---- MODULE Spec2Model ----
(***************************************************************************)
(* A model of the schedule consolidator (src/app.py): the date and time    *)
(* normalisers, the column resolver, the per-file merge loop, the sort,    *)
(* the date formatter, the final projection and the match-count summary.   *)
(*                                                                         *)
(* Text is a sequence of one-character strings, so that strip, upper,      *)
(* split, substring search and strptime are computed, not assumed.         *)
(* A missing cell (pandas NaN) is the one-element sequence NaN; a missing  *)
(* timestamp is NaT; an exception raised by a parser is ValueError.        *)
(***************************************************************************)
EXTENDS Integers, Sequences, FiniteSets, TLC

\* ------------------------------------------------------------------ text

\* The characters the model's texts use, in ASCII order.
Alphabet ==
    <<" ", "(", ")", "-", ".", "/",
      "0", "1", "2", "3", "4", "5", "6", "7", "8", "9", ":",
      "A", "B", "C", "D", "E", "F", "G", "H", "I", "J", "K", "L", "M",
      "N", "O", "P", "Q", "R", "S", "T", "U", "V", "W", "X", "Y", "Z",
      "a", "b", "c", "d", "e", "f", "g", "h", "i", "j", "k", "l", "m",
      "n", "o", "p", "q", "r", "s", "t", "u", "v", "w", "x", "y", "z">>

Chars == {Alphabet[i] : i \in 1..Len(Alphabet)}

\* the position of each character in the alphabet
OrdOf == [c \in Chars |-> CHOOSE i \in 1..Len(Alphabet) : Alphabet[i] = c]

Ord(c) == OrdOf[c]

UpperLetters == {Alphabet[i] : i \in Ord("A")..Ord("Z")}
LowerLetters == {Alphabet[i] : i \in Ord("a")..Ord("z")}
DigitChars == {Alphabet[i] : i \in Ord("0")..Ord("9")}

\* A missing cell: read_excel(dtype=str) leaves empty cells as float NaN.
NaN == <<"NaN">>

isna(v) == v = NaN

\* str(v): the text of a text cell is itself, the text of NaN is "nan".
Str(v) == IF isna(v) THEN <<"n", "a", "n">> ELSE v

\* str.upper and str.lower, character by character
UpperOf == [c \in Chars |-> IF c \in LowerLetters THEN Alphabet[Ord(c) - Ord("a") + Ord("A")] ELSE c]
LowerOf == [c \in Chars |-> IF c \in UpperLetters THEN Alphabet[Ord(c) - Ord("A") + Ord("a")] ELSE c]

UpperChar(c) == UpperOf[c]
LowerChar(c) == LowerOf[c]

Upper(s) == [i \in 1..Len(s) |-> UpperChar(s[i])]
Lower(s) == [i \in 1..Len(s) |-> LowerChar(s[i])]

RECURSIVE LStrip(_)
LStrip(s) == IF s # << >> /\ Head(s) = " " THEN LStrip(Tail(s)) ELSE s

RECURSIVE RStrip(_)
RStrip(s) == IF s # << >> /\ s[Len(s)] = " " THEN RStrip(SubSeq(s, 1, Len(s) - 1)) ELSE s

Strip(s) == RStrip(LStrip(s))

Contains(s, c) == \E i \in 1..Len(s) : s[i] = c

Count(s, c) == Cardinality({i \in 1..Len(s) : s[i] = c})

\* needle in hay (Python's substring test)
IsSubstring(needle, hay) ==
    \E i \in 0..(Len(hay) - Len(needle)) :
        \A j \in 1..Len(needle) : hay[i + j] = needle[j]

FirstIndex(s, c) == IF Contains(s, c) THEN CHOOSE i \in 1..Len(s) : s[i] = c /\ \A j \in 1..(i - 1) : s[j] # c ELSE 0
LastIndex(s, c) == IF Contains(s, c) THEN CHOOSE i \in 1..Len(s) : s[i] = c /\ \A j \in (i + 1)..Len(s) : s[j] # c ELSE 0

\* s.split(c)[0]
SplitFirst(s, c) == IF Contains(s, c) THEN SubSeq(s, 1, FirstIndex(s, c) - 1) ELSE s

\* s.split(c)[-1]
SplitLast(s, c) == IF Contains(s, c) THEN SubSeq(s, LastIndex(s, c) + 1, Len(s)) ELSE s

\* s.rsplit(c, 1)[0]
RSplitOnce(s, c) == IF Contains(s, c) THEN SubSeq(s, 1, LastIndex(s, c) - 1) ELSE s

\* s.split(c): every field, empty ones included
RECURSIVE Split(_, _)
Split(s, c) ==
    IF Contains(s, c)
    THEN <<SplitFirst(s, c)>> \o Split(SubSeq(s, FirstIndex(s, c) + 1, Len(s)), c)
    ELSE <<s>>

AllDigits(s) == s # << >> /\ \A i \in 1..Len(s) : s[i] \in DigitChars

DigitVal(c) == Ord(c) - Ord("0")

RECURSIVE ToNat(_)
ToNat(s) == IF s = << >> THEN 0 ELSE 10 * ToNat(SubSeq(s, 1, Len(s) - 1)) + DigitVal(s[Len(s)])

DigitChar(n) == Alphabet[Ord("0") + n]

\* a number below 100 as two digits, below 10000 as four
TwoDigits(n) == <<DigitChar(n \div 10), DigitChar(n % 10)>>
FourDigits(n) == TwoDigits(n \div 100) \o TwoDigits(n % 100)

\* lexicographic order of two texts, by character code
RECURSIVE TextLess(_, _)
TextLess(a, b) ==
    IF b = << >> THEN FALSE
    ELSE IF a = << >> THEN TRUE
    ELSE IF Head(a) # Head(b) THEN Ord(Head(a)) < Ord(Head(b))
    ELSE TextLess(Tail(a), Tail(b))

\* ------------------------------------------------------------ timestamps

\* A timestamp is [ymd, hms]: year*10000 + month*100 + day, and
\* hour*10000 + minute*100 + second. NaT is the missing timestamp and
\* ValueError the exception a failed parse raises.
NaT == [ymd |-> -1, hms |-> -1]
ValueError == [ymd |-> -2, hms |-> -2]

\* pd.Timestamp.max = 2262-04-11 23:47:16.854775807
TimestampMax == [ymd |-> 22620411, hms |-> 234716]
\* pd.Timestamp.min = 1677-09-21 00:12:43.145224193
TimestampMin == [ymd |-> 16770921, hms |-> 1243]

TsLess(a, b) == a.ymd < b.ymd \/ (a.ymd = b.ymd /\ a.hms < b.hms)
TsLeq(a, b) == a = b \/ TsLess(a, b)

IsLeap(y) == (y % 4 = 0 /\ y % 100 # 0) \/ y % 400 = 0

DaysInMonth(y, m) ==
    IF m = 2 THEN (IF IsLeap(y) THEN 29 ELSE 28)
    ELSE IF m \in {4, 6, 9, 11} THEN 30 ELSE 31

\* The timestamp of a calendar date at midnight; ValueError for a date that
\* does not exist or lies outside the representable range.
MakeDate(y, m, d) ==
    LET t == [ymd |-> y * 10000 + m * 100 + d, hms |-> 0]
    IN IF m \in 1..12 /\ d \in 1..DaysInMonth(y, m) /\ TsLeq(TimestampMin, t) /\ TsLeq(t, TimestampMax)
       THEN t ELSE ValueError

\* strptime fields: %m, %d, %Y, %y, %I, %H, %M, %S
FieldMonth(f) == AllDigits(f) /\ Len(f) <= 2 /\ ToNat(f) \in 1..12
FieldDay(f) ==
    \/ AllDigits(f) /\ Len(f) <= 2 /\ ToNat(f) \in 1..31
    \/ Len(f) = 2 /\ f[1] = " " /\ f[2] \in DigitChars /\ f[2] # "0"
FieldDayVal(f) == IF f[1] = " " THEN DigitVal(f[2]) ELSE ToNat(f)
FieldYear4(f) == AllDigits(f) /\ Len(f) = 4
FieldHour12(f) == AllDigits(f) /\ Len(f) <= 2 /\ ToNat(f) \in 1..12
FieldHour24(f) == AllDigits(f) /\ Len(f) <= 2 /\ ToNat(f) \in 0..23
FieldMinute(f) == AllDigits(f) /\ Len(f) <= 2 /\ ToNat(f) \in 0..59
FieldAmPm(f) == Len(f) = 2 /\ Upper(f) \in {<<"A", "M">>, <<"P", "M">>}

\* pd.to_datetime(s, format='%m/%d/%Y')
StrptimeMDY(s) ==
    LET f == Split(s, "/")
    IN IF Len(f) = 3 /\ FieldMonth(f[1]) /\ FieldDay(f[2]) /\ FieldYear4(f[3])
       THEN MakeDate(ToNat(f[3]), ToNat(f[1]), FieldDayVal(f[2]))
       ELSE ValueError

\* pd.to_datetime(s, format='%Y-%m-%d')
StrptimeYMD(s) ==
    LET f == Split(s, "-")
    IN IF Len(f) = 3 /\ FieldYear4(f[1]) /\ FieldMonth(f[2]) /\ AllDigits(f[3]) /\ FieldDay(f[3])
       THEN MakeDate(ToNat(f[1]), ToNat(f[2]), ToNat(f[3]))
       ELSE ValueError

\* a two-digit year: 00..68 is 20yy, 69..99 is 19yy
YearOf(f) == IF Len(f) = 4 THEN ToNat(f) ELSE IF ToNat(f) <= 68 THEN 2000 + ToNat(f) ELSE 1900 + ToNat(f)

\* the fields of a text separated by "/" or "-"
DateFields(s) == Split([i \in 1..Len(s) |-> IF s[i] = "-" THEN "/" ELSE s[i]], "/")

\* pd.to_datetime(s, dayfirst=True) on a text of three numeric fields with the
\* year last: day/month/year, or month/day/year when only that reading is a
\* date's (the first field is at most 12 and the second is not). The empty
\* text gives NaT; any other text a ValueError.
ParseDayFirst(s) ==
    LET f == DateFields(s)
    IN IF s = << >> THEN NaT
       ELSE IF Len(f) = 3 /\ AllDigits(f[1]) /\ Len(f[1]) <= 2 /\ AllDigits(f[2]) /\ Len(f[2]) <= 2
               /\ AllDigits(f[3]) /\ Len(f[3]) \in {2, 4}
       THEN LET a == ToNat(f[1])
                b == ToNat(f[2])
                y == YearOf(f[3])
            IN IF a > 12 \/ b <= 12 THEN MakeDate(y, b, a) ELSE MakeDate(y, a, b)
       ELSE ValueError

\* ------------------------------------------------- the date normaliser

TBA == <<"T", "B", "A">>
NAN == <<"N", "A", "N">>

\* try: return <parse> / except (ValueError, TypeError): return pd.NaT
OrNaT(t) == IF t = ValueError THEN NaT ELSE t

\* the sentinel test of parse_for_sorting
IsDateSentinel(date_str) == isna(date_str) \/ Upper(Strip(Str(date_str))) \in {TBA, NAN}

IsRangeForm(s) == Contains(s, "-") /\ Contains(s, "/")
IsIsoForm(s) == Contains(s, "-") /\ Count(s, "-") = 2

\* 1. the range branch: the text before the first hyphen, "/", the text
\* after the last slash, read month-first
RangeBranch(s) == OrNaT(StrptimeMDY(SplitFirst(s, "-") \o <<"/">> \o SplitLast(s, "/")))

\* a faulty variant of IsoBranch, to test the sensitivity of the properties: a failed year-month-day parse falls through to the day-first parse
IsoBranchFallsThrough(s) ==
    IF StrptimeYMD(SplitFirst(s, " ")) = ValueError THEN OrNaT(ParseDayFirst(s))
    ELSE StrptimeYMD(SplitFirst(s, " "))

\* 2. the ISO branch: the text before the first space, read year-month-day
IsoBranch(s) == OrNaT(StrptimeYMD(SplitFirst(s, " ")))

\* 3. the default branch: day first
DefaultBranch(s) == OrNaT(ParseDayFirst(s))

parse_for_sorting(date_str) ==
    IF IsDateSentinel(date_str) THEN NaT
    ELSE LET s == Strip(Str(date_str))
         IN IF IsRangeForm(s) THEN RangeBranch(s)
            ELSE IF IsIsoForm(s) THEN IsoBranch(s)
            ELSE DefaultBranch(s)

\* ------------------------------------------------- the time normaliser

\* the leading run of digits of a text
RECURSIVE LeadingDigits(_)
LeadingDigits(s) ==
    IF s # << >> /\ Head(s) \in DigitChars THEN <<Head(s)>> \o LeadingDigits(Tail(s)) ELSE << >>

AfterDigits(s) == SubSeq(s, Len(LeadingDigits(s)) + 1, Len(s))

\* a time of day on 1900-01-01, the date strptime gives a time without one
MakeTime(h, m, sec) == [ymd |-> 19000101, hms |-> h * 10000 + m * 100 + sec]

Hour24(h12, ampm) ==
    IF Upper(ampm) = <<"A", "M">> THEN (IF h12 = 12 THEN 0 ELSE h12)
    ELSE (IF h12 = 12 THEN 12 ELSE h12 + 12)

\* re.match(r'^\d{2}:\d{2}:\d{2}$', s)
MatchesExcelTime(s) ==
    /\ Len(s) = 8
    /\ s[3] = ":" /\ s[6] = ":"
    /\ \A i \in {1, 2, 4, 5, 7, 8} : s[i] \in DigitChars

\* pd.to_datetime(s, format='%H:%M:%S')
StrptimeHMS(s) ==
    LET f == Split(s, ":")
    IN IF Len(f) = 3 /\ FieldHour24(f[1]) /\ FieldMinute(f[2]) /\ FieldMinute(f[3])
       THEN MakeTime(ToNat(f[1]), ToNat(f[2]), ToNat(f[3]))
       ELSE ValueError

\* hour [":" minute] spaces am/pm, the shape of '%I:%M %p', '%I:%M%p' and
\* '%I %p': withMinute says whether ":" minute is there, withSpace whether
\* the format has its space (one or more in the text) before am/pm
Strptime12(s, withMinute, withSpace) ==
    LET h == LeadingDigits(s)
        r1 == AfterDigits(s)
        hasColon == r1 # << >> /\ Head(r1) = ":"
        r2 == IF hasColon THEN Tail(r1) ELSE r1
        m == IF hasColon THEN LeadingDigits(r2) ELSE << >>
        r3 == IF hasColon THEN AfterDigits(r2) ELSE r2
        ap == LStrip(r3)
    IN IF /\ hasColon = withMinute
          /\ FieldHour12(h)
          /\ (withMinute => FieldMinute(m))
          /\ (IF withSpace THEN Len(r3) > Len(ap) ELSE Len(r3) = Len(ap))
          /\ FieldAmPm(ap)
       THEN MakeTime(Hour24(ToNat(h), ap), ToNat(m), 0)
       ELSE ValueError

\* pd.to_datetime(s, format='%H:%M')
StrptimeHM(s) ==
    LET f == Split(s, ":")
    IN IF Len(f) = 2 /\ FieldHour24(f[1]) /\ FieldMinute(f[2])
       THEN MakeTime(ToNat(f[1]), ToNat(f[2]), 0)
       ELSE ValueError

\* the four formats of time_formats, in order
time_formats == <<"%I:%M %p", "%H:%M", "%I %p", "%I:%M%p">>

StrptimeFormat(s, fmt) ==
    CASE fmt = "%I:%M %p" -> Strptime12(s, TRUE, TRUE)
      [] fmt = "%H:%M" -> StrptimeHM(s)
      [] fmt = "%I %p" -> Strptime12(s, FALSE, TRUE)
      [] fmt = "%I:%M%p" -> Strptime12(s, TRUE, FALSE)

\* t.strftime('%I:%M %p')
StrftimeIMp(t) ==
    LET h == t.hms \div 10000
        m == (t.hms \div 100) % 100
        h12 == IF h % 12 = 0 THEN 12 ELSE h % 12
    IN TwoDigits(h12) \o <<":">> \o TwoDigits(m) \o <<" ">> \o (IF h < 12 THEN <<"A", "M">> ELSE <<"P", "M">>)

IsTimeSentinel(time_str) == isna(time_str) \/ Upper(Strip(Str(time_str))) \in {TBA, NAN, << >>}

\* the first format of time_formats, from position k on, that parses s
RECURSIVE FirstFormat(_, _)
FirstFormat(s, k) ==
    IF k > Len(time_formats) THEN 0
    ELSE IF StrptimeFormat(s, time_formats[k]) # ValueError THEN k
    ELSE FirstFormat(s, k + 1)

\* the "HH:MM:SS" step: the reformatted text, or ValueError to fall through
ExcelTimeStep(s) ==
    LET parsed_time == StrptimeHMS(s)
    IN IF MatchesExcelTime(s) /\ parsed_time # ValueError THEN StrftimeIMp(parsed_time) ELSE ValueError

\* the loop over time_formats: the reformatted text of the first format
\* that parses, or the text itself
FormatsStep(s) ==
    LET k == FirstFormat(s, 1)
    IN IF k # 0 THEN StrftimeIMp(StrptimeFormat(s, time_formats[k])) ELSE s

parse_time_string(time_str) ==
    IF IsTimeSentinel(time_str) THEN TBA
    ELSE LET s == Strip(Str(time_str))
             excel == ExcelTimeStep(s)
         IN IF excel # ValueError THEN excel ELSE FormatsStep(s)

\* a faulty variant of get_sort_time, to test the sensitivity of the properties: the two sentinels exchanged
get_sort_time_swapped(time_str) ==
    IF time_str = TBA THEN TimestampMin
    ELSE LET t == Strptime12(time_str, TRUE, TRUE)
         IN IF t # ValueError THEN t ELSE TimestampMax

get_sort_time(time_str) ==
    IF time_str = TBA THEN TimestampMax
    ELSE LET t == Strptime12(time_str, TRUE, TRUE)
         IN IF t # ValueError THEN t ELSE TimestampMin

\* --------------------------------------------------- the column resolver

\* the canonical column names
ColDate == <<"d", "a", "t", "e">>
ColTime == <<"t", "i", "m", "e">>
ColOpponent == <<"o", "p", "p", "o", "n", "e", "n", "t">>
ColMeet == <<"m", "e", "e", "t">>
ColLocation == <<"l", "o", "c", "a", "t", "i", "o", "n">>
ColDistance == <<"d", "i", "s", "t", "a", "n", "c", "e">>

\* column_mapping, in the order of its keys: each canonical name with its variations in order
column_mapping ==
    << <<ColDate, <<<<"d", "a", "t", "e">>, <<"d", "a", "t", "e", "s">>>> >>,
       <<ColTime, <<<<"t", "i", "m", "e">>, <<"t", "i", "m", "e", "s">>>> >>,
       <<ColOpponent, <<<<"o", "p", "p", "o", "n", "e", "n", "t">>, <<"o", "p", "p", "o", "n", "e", "n", "t", "s">>, <<"v", "s">>, <<"a", "g", "a", "i", "n", "s", "t">>>> >>,
       <<ColMeet, <<<<"m", "e", "e", "t">>, <<"m", "e", "e", "t", "s">>, <<"e", "v", "e", "n", "t">>, <<"c", "o", "m", "p", "e", "t", "i", "t", "i", "o", "n">>>> >>,
       <<ColLocation, <<<<"l", "o", "c", "a", "t", "i", "o", "n">>, <<"l", "o", "c", "a", "t", "i", "o", "n", "s">>, <<"v", "e", "n", "u", "e">>, <<"w", "h", "e", "r", "e">>, <<"p", "l", "a", "c", "e">>>> >>,
       <<ColDistance, <<<<"d", "i", "s", "t", "a", "n", "c", "e", " ", "f", "r", "o", "m", " ", "m", "a", "c", "u">>, <<"d", "i", "s", "t", "a", "n", "c", "e">>, <<"m", "i", "l", "e", "s">>, <<"d", "i", "s", "t", "a", "n", "c", "e", " ", "(", "m", "i", "l", "e", "s", ")">>>> >> >>

\* col.lower().strip() of every column
LoweredColumns(columns) == [i \in 1..Len(columns) |-> Strip(Lower(columns[i]))]

\* matching_cols: the positions of the columns whose lower-cased, stripped name contains the variation
MatchingCols(lowered, variation) == {i \in 1..Len(lowered) : IsSubstring(variation, lowered[i])}

Min(S) == CHOOSE x \in S : \A y \in S : x <= y
Max(S) == CHOOSE x \in S : \A y \in S : x >= y

\* the position of the column the variations from position k on select: the
\* first column of the first variation that matches any; 0 when none does
RECURSIVE FirstVariationMatch(_, _, _)
FirstVariationMatch(lowered, variations, k) ==
    IF k > Len(variations) THEN 0
    ELSE LET matching_cols == MatchingCols(lowered, variations[k])
         IN IF matching_cols # {} THEN Min(matching_cols)
            ELSE FirstVariationMatch(lowered, variations, k + 1)

\* found_columns: a function from the canonical names that resolved to the file's column names
find_required_columns(columns) ==
    LET lowered == LoweredColumns(columns)
        match == [k \in 1..Len(column_mapping) |-> FirstVariationMatch(lowered, column_mapping[k][2], 1)]
        found == {k \in 1..Len(column_mapping) : match[k] # 0}
    IN [name \in {column_mapping[k][1] : k \in found} |->
            columns[match[CHOOSE k \in found : column_mapping[k][1] = name]]]

\* rename_dict = {v: k for k, v in column_mapping.items()}: the last canonical
\* name, in key order, that resolved to the column
RenameTarget(found, col) ==
    LET ks == {k \in 1..Len(column_mapping) :
                  column_mapping[k][1] \in DOMAIN found /\ found[column_mapping[k][1]] = col}
    IN IF ks = {} THEN col ELSE column_mapping[Max(ks)][1]

\* df.rename(columns=rename_dict): the column names after the renaming
RenamedColumns(columns, found) == [i \in 1..Len(columns) |-> RenameTarget(found, columns[i])]

HasColumn(columns, name) == \E i \in 1..Len(columns) : columns[i] = name

ColumnIndex(columns, name) == Min({i \in 1..Len(columns) : columns[i] = name})

\* the cell of a row under a column, NaN when the table has no such column
CellOr(columns, row, name) == IF HasColumn(columns, name) THEN row[ColumnIndex(columns, name)] ELSE NaN

\* ------------------------------------------------------- the merge step

\* An uploaded file is [name, readable, columns, rows]: its name, whether
\* read_excel can read it, its header row and its data rows, each row a
\* sequence of cells (a text or NaN) under the columns.

\* .dropna(how='all'): the rows with at least one cell
DropEmptyRows(rows) == SelectSeq(rows, LAMBDA r : \E j \in 1..Len(r) : ~isna(r[j]))

\* file.name.rsplit('.', 1)[0]
BaseName(name) == RSplitOnce(name, ".")

\* df['sort_date'].fillna(pd.Timestamp.max)
FillNaT(t) == IF t = NaT THEN TimestampMax ELSE t

\* the columns of the file's table after df.rename
FrameColumns(file) == RenamedColumns(file.columns, find_required_columns(file.columns))

\* 'date' not in column_mapping
MissingDateColumn(file) == ColDate \notin DOMAIN find_required_columns(file.columns)

\* df['date'] or df['time'] raises KeyError: the renamed table has no such column
RaisesKeyError(file) ==
    LET cols == FrameColumns(file)
    IN ~HasColumn(cols, ColDate) \/ ~HasColumn(cols, ColTime)

\* one row of the table appended to list_of_dataframes: team is the file's
\* base name, date_col the position of the column that resolved as the
\* date, cols the column names after the renaming
FrameRow(team, date_col, cols, r) ==
    LET date_cell == CellOr(cols, r, ColDate)
        time_cell == CellOr(cols, r, ColTime)
        parsed == parse_time_string(time_cell)
    IN [DisplayDate |-> r[date_col],
        MACUTeam |-> team,
        date |-> date_cell,
        time |-> time_cell,
        opponent |-> CellOr(cols, r, ColOpponent),
        meet |-> CellOr(cols, r, ColMeet),
        location |-> CellOr(cols, r, ColLocation),
        distance |-> CellOr(cols, r, ColDistance),
        sort_date |-> FillNaT(parse_for_sorting(date_cell)),
        parsed_time |-> parsed,
        sort_time |-> get_sort_time(parsed)]

\* the table a file that survives appends: its column names and its rows
BuildFrame(file) ==
    LET kept == DropEmptyRows(file.rows)
        found == find_required_columns(file.columns)
        date_col == ColumnIndex(file.columns, found[ColDate])
        team == BaseName(file.name)
        cols == RenamedColumns(file.columns, found)
    IN [columns |-> {cols[i] : i \in 1..Len(cols)},
        rows |-> [k \in 1..Len(kept) |-> FrameRow(team, date_col, cols, kept[k])]]

\* --------------------------------------------------- concat and sort

RECURSIVE ConcatRows(_)
ConcatRows(frames) == IF frames = << >> THEN << >> ELSE Head(frames).rows \o ConcatRows(Tail(frames))

\* pd.concat(list_of_dataframes, ignore_index=True): the rows in file then
\* row order, labelled 0, 1, ...; the columns are the union of the tables'
Concat(frames) ==
    LET rows == ConcatRows(frames)
    IN [columns |-> UNION {frames[k].columns : k \in 1..Len(frames)},
        rows |-> [k \in 1..Len(rows) |-> [index |-> k - 1, row |-> rows[k]]]]

\* a faulty variant of SortKeyLess, to test the sensitivity of the properties: the two keys in the wrong order, sort_time first
SortKeyLessTimeFirst(a, b) ==
    \/ TsLess(a.row.sort_time, b.row.sort_time)
    \/ a.row.sort_time = b.row.sort_time /\ TsLess(a.row.sort_date, b.row.sort_date)

\* by=['sort_date', 'sort_time'], ascending
SortKeyLess(a, b) ==
    \/ TsLess(a.row.sort_date, b.row.sort_date)
    \/ a.row.sort_date = b.row.sort_date /\ TsLess(a.row.sort_time, b.row.sort_time)

\* x put into the sorted sequence s after every element that is not greater
InsertAfterEquals(s, x) ==
    LET before == {k \in 1..Len(s) : SortKeyLess(x, s[k])}
        pos == IF before = {} THEN Len(s) + 1 ELSE Min(before)
    IN SubSeq(s, 1, pos - 1) \o <<x>> \o SubSeq(s, pos, Len(s))

RECURSIVE SortFrom(_, _)
SortFrom(sorted, rest) ==
    IF rest = << >> THEN sorted ELSE SortFrom(InsertAfterEquals(sorted, Head(rest)), Tail(rest))

\* x put into the sorted sequence s before every element that is not smaller
InsertBeforeEquals(s, x) ==
    LET before == {k \in 1..Len(s) : ~SortKeyLess(s[k], x)}
        pos == IF before = {} THEN Len(s) + 1 ELSE Min(before)
    IN SubSeq(s, 1, pos - 1) \o <<x>> \o SubSeq(s, pos, Len(s))

RECURSIVE UnstableSortFrom(_, _)
UnstableSortFrom(sorted, rest) ==
    IF rest = << >> THEN sorted ELSE UnstableSortFrom(InsertBeforeEquals(sorted, Head(rest)), Tail(rest))

\* a faulty variant of SortValues, to test the sensitivity of the properties: a sort that does not keep ties in order
SortValuesUnstable(rows) == UnstableSortFrom(<< >>, rows)

\* combined_df.sort_values(by=[...]): the lexicographic sort of several keys, which keeps ties in order
SortValues(rows) == SortFrom(<< >>, rows)

\* ------------------------------------------------ the date formatter

\* parsed_date.strftime('%d/%m/%Y')
StrftimeDMY(t) ==
    TwoDigits(t.ymd % 100) \o <<"/">> \o TwoDigits((t.ymd \div 100) % 100) \o <<"/">> \o FourDigits(t.ymd \div 10000)

format_final_date(row) ==
    LET original_date == Str(row.DisplayDate)
        parsed_date == row.sort_date
    IN IF Contains(original_date, "-") /\ Contains(original_date, "/") THEN original_date
       ELSE IF parsed_date # NaT /\ parsed_date # TimestampMax THEN StrftimeDMY(parsed_date)
       ELSE original_date

\* ------------------------------------------------ the final projection

\* series.fillna(value)
fillna(v, value) == IF isna(v) THEN value ELSE v

\* the columns combined_df.get(name, default) finds missing: the default is
\* a str, and str has no fillna
OptionalColumns == {ColOpponent, ColMeet, ColLocation, ColDistance}

RaisesAttributeError(columns) == \E c \in OptionalColumns : c \notin columns

\* one row of final_df, under the label the sort left it
FinalRow(r, final_date) ==
    [index |-> r.index,
     Date |-> final_date,
     Time |-> fillna(r.row.parsed_time, TBA),
     MACUTeam |-> fillna(r.row.MACUTeam, << >>),
     Opponent |-> fillna(r.row.opponent, << >>),
     Meet |-> fillna(r.row.meet, << >>),
     Location |-> fillna(r.row.location, TBA),
     Distance |-> Str(fillna(r.row.distance, <<"0">>))]

\* ---------------------------------------------- the summary aggregator

\* df['Date'].unique(): the distinct values in order of first appearance
RECURSIVE Unique(_)
Unique(s) ==
    IF s = << >> THEN << >>
    ELSE LET u == Unique(SubSeq(s, 1, Len(s) - 1))
         IN IF \E k \in 1..Len(u) : u[k] = s[Len(s)] THEN u ELSE Append(u, s[Len(s)])

\* the texts of a set in lexicographic order
RECURSIVE SortedTexts(_)
SortedTexts(S) ==
    IF S = {} THEN << >>
    ELSE LET least == CHOOSE x \in S : \A y \in S \ {x} : TextLess(x, y)
         IN <<least>> \o SortedTexts(S \ {least})

\* df.groupby('Date').size().reset_index(name='Match Count'): one row per
\* Date, the groups in the sorted order of their keys
GroupBySize(dates) ==
    LET sorted == SortedTexts({dates[k] : k \in 1..Len(dates)})
    IN [k \in 1..Len(sorted) |->
            [Date |-> sorted[k], MatchCount |-> Cardinality({j \in 1..Len(dates) : dates[j] = sorted[k]})]]

\* date_counts['Date'].map({date: i for i, date in enumerate(unique_dates)})
SortOrder(g, unique_dates) == (CHOOSE i \in 1..Len(unique_dates) : unique_dates[i] = g.Date) - 1

\* the groups of a set by ascending sort_order
RECURSIVE SortedByOrder(_, _)
SortedByOrder(S, unique_dates) ==
    IF S = {} THEN << >>
    ELSE LET least == CHOOSE x \in S : \A y \in S : SortOrder(x, unique_dates) <= SortOrder(y, unique_dates)
         IN <<least>> \o SortedByOrder(S \ {least}, unique_dates)

\* a faulty variant of SortBySortOrder, to test the sensitivity of the properties: the groups left in the order groupby gave them
SortBySortOrderSkipped(date_counts, unique_dates) == date_counts

\* date_counts.sort_values('sort_order').drop('sort_order', axis=1)
SortBySortOrder(date_counts, unique_dates) ==
    SortedByOrder({date_counts[k] : k \in 1..Len(date_counts)}, unique_dates)

\* create_match_count_summary on a table with rows (the caller passes no other)
create_match_count_summary(rows) ==
    LET dates == [k \in 1..Len(rows) |-> rows[k].Date]
    IN SortBySortOrder(GroupBySize(dates), Unique(dates))

\* ------------------------------------------------------------- inputs

\* the most files one upload holds
MaxFiles == 2

\* Header rows. Each column is <<name, kind>>; the kind only says which cell
\* of a sample row stands under the column.
HeadersFull ==
    << <<<<"D", "a", "t", "e">>, "d">>, <<<<"T", "i", "m", "e">>, "t">>, <<<<"O", "p", "p", "o", "n", "e", "n", "t">>, "o">>, <<<<"M", "e", "e", "t">>, "o">>,
       <<<<"L", "o", "c", "a", "t", "i", "o", "n">>, "o">>, <<<<"D", "i", "s", "t", "a", "n", "c", "e", " ", "f", "r", "o", "m", " ", "M", "A", "C", "U", " ", "(", "m", "i", "l", "e", "s", ")">>, "n">> >>
HeadersSynonyms == << <<<<"D", "a", "t", "e", "s">>, "d">>, <<<<"T", "i", "m", "e", "s", " ">>, "t">>, <<<<"O", "p", "p", "o", "n", "e", "n", "t", "s">>, "o">>, <<<<"V", "e", "n", "u", "e">>, "o">> >>
HeadersDateTime == << <<<<"T", "i", "m", "e">>, "t">>, <<<<"D", "a", "t", "e">>, "d">> >>
HeadersNoTime == << <<<<"D", "a", "t", "e">>, "d">>, <<<<"O", "p", "p", "o", "n", "e", "n", "t">>, "o">>, <<<<"M", "e", "e", "t">>, "o">>, <<<<"W", "h", "e", "r", "e">>, "o">>, <<<<"M", "i", "l", "e", "s">>, "n">> >>
HeadersNoDate == << <<<<"D", "a", "y">>, "d">>, <<<<"T", "i", "m", "e">>, "t">>, <<<<"O", "p", "p", "o", "n", "e", "n", "t">>, "o">> >>
HeadersMeetDate ==
    << <<<<"M", "e", "e", "t", " ", "D", "a", "t", "e">>, "d">>, <<<<"T", "i", "m", "e">>, "t">>, <<<<"O", "p", "p", "o", "n", "e", "n", "t">>, "o">>, <<<<"L", "o", "c", "a", "t", "i", "o", "n">>, "o">>, <<<<"D", "i", "s", "t", "a", "n", "c", "e">>, "n">> >>

\* Sample rows: a date cell, a time cell, a text cell and a number cell.
Row(d, t, o, n) == [d |-> d, t |-> t, o |-> o, n |-> n]
RowSep5Evening == Row(<<"0", "5", "/", "0", "9", "/", "2", "0", "2", "5">>, <<"1", "7", ":", "0", "0", ":", "0", "0">>, <<"H", "a", "w", "k", "s">>, <<"1", "2">>)
RowSep5Iso == Row(<<"2", "0", "2", "5", "-", "0", "9", "-", "0", "5", " ", "1", "0", ":", "0", "0", ":", "0", "0">>, <<"9", ":", "0", "0", " ", "A", "M">>, NaN, NaN)
RowJulRange == Row(<<"7", "/", "1", "2", "-", "7", "/", "1", "4", "/", "2", "0", "2", "5">>, <<"T", "B", "A">>, <<"H", "a", "w", "k", "s">>, NaN)
RowSep5Short == Row(<<"5", "/", "9", "/", "2", "0", "2", "5">>, <<"5", ":", "0", "0", " ", "P", "M">>, <<"O", "w", "l", "s">>, <<"3", "0">>)
RowNoDate == Row(NaN, <<"n", "o", "o", "n", "i", "s", "h">>, <<"O", "w", "l", "s">>, NaN)
RowTba == Row(<<" ", "t", "b", "a", " ">>, NaN, NaN, <<"1", "2">>)
RowEmpty == Row(NaN, NaN, NaN, NaN)
RowJul12 == Row(<<"1", "2", "/", "0", "7", "/", "2", "0", "2", "5">>, <<"9", " ", "P", "M">>, <<"H", "a", "w", "k", "s">>, <<"3", "0">>)
RowHello == Row(<<"h", "e", "l", "l", "o">>, <<"1", "7", ":", "0", "0">>, NaN, NaN)

RowsNone == << >>
RowsOne == <<RowSep5Evening>>
RowsIsoRange == <<RowSep5Iso, RowJulRange>>
RowsTies == <<RowSep5Short, RowEmpty, RowSep5Evening>>
RowsUnknown == <<RowNoDate, RowTba>>
RowsMixed == <<RowHello, RowJul12>>

\* a file: the sample rows laid out under the header row
File(name, readable, headers, rows) ==
    [name |-> name,
     readable |-> readable,
     columns |-> [j \in 1..Len(headers) |-> headers[j][1]],
     rows |-> [k \in 1..Len(rows) |-> [j \in 1..Len(headers) |-> rows[k][headers[j][2]]]]]

SampleFiles ==
    {File(<<"T", "r", "a", "c", "k", ".", "x", "l", "s", "x">>, TRUE, HeadersFull, rows) :
        rows \in {RowsNone, RowsOne, RowsIsoRange, RowsTies, RowsUnknown, RowsMixed}}
    \cup {File(<<"G", "o", "l", "f", ".", "v", "2", ".", "x", "l", "s">>, TRUE, HeadersSynonyms, rows) : rows \in {RowsOne, RowsIsoRange, RowsTies, RowsUnknown}}
    \cup {File(<<"S", "w", "i", "m", ".", "x", "l", "s", "x">>, TRUE, HeadersDateTime, rows) : rows \in {RowsNone, RowsOne, RowsMixed}}
    \cup {File(<<"T", "e", "n", "n", "i", "s", ".", "x", "l", "s", "x">>, TRUE, HeadersNoTime, RowsOne),
          File(<<"R", "o", "w", "i", "n", "g", ".", "x", "l", "s">>, TRUE, HeadersNoDate, RowsOne),
          File(<<"C", "r", "o", "s", "s", " ", "C", "o", "u", "n", "t", "r", "y", ".", "x", "l", "s", "x">>, TRUE, HeadersMeetDate, RowsIsoRange),
          File(<<"B", "r", "o", "k", "e", "n", ".", "x", "l", "s", "x">>, FALSE, HeadersFull, RowsOne)}

RECURSIVE SeqsUpTo(_, _)
SeqsUpTo(S, n) ==
    IF n = 0 THEN {<< >>}
    ELSE LET shorter == SeqsUpTo(S, n - 1)
         IN shorter \cup {Append(s, x) : s \in {t \in shorter : Len(t) = n - 1}, x \in S}

\* the uploads: every list of at most MaxFiles sample files
Uploads == SeqsUpTo(SampleFiles, MaxFiles)

\* -------------------------------------------------------------- state

VARIABLES
    uploaded_files,      \* the files of the upload
    pc,                  \* where the run is
    file_index,          \* the position in uploaded_files of the file the loop takes next
    list_of_dataframes,  \* the tables of the files that survived
    messages,            \* the st.warning and st.error calls of the loop, in order
    combined_df,         \* the concatenated table: before, then after the sort, then with Final Date
    final_df,            \* what combine_and_sort_schedules returned: None or a table
    match_count_summary, \* the summary the page shows
    arg,                 \* the cell a normaliser is called on
    ret,                 \* what it returned
    branch               \* the return statement that produced it

vars == <<uploaded_files, pc, file_index, list_of_dataframes, messages, combined_df, final_df,
          match_count_summary, arg, ret, branch>>

pipeline == <<uploaded_files, pc, file_index, list_of_dataframes, messages, combined_df, final_df,
              match_count_summary>>
normaliser == <<arg, ret, branch>>

None == [none |-> TRUE]
EmptyTable == [columns |-> {}, rows |-> << >>]

PipelineIdle ==
    /\ pc = "upload"
    /\ file_index = 1
    /\ list_of_dataframes = << >>
    /\ messages = << >>
    /\ combined_df = EmptyTable
    /\ final_df = None
    /\ match_count_summary = None

NormaliserIdle == arg = NaN /\ ret = None /\ branch = "idle"

\* The page with an upload chosen, nothing run yet.
Init ==
    /\ uploaded_files \in Uploads
    /\ PipelineIdle
    /\ NormaliserIdle

\* ----------------------------------------------------- the merge loop

\* if uploaded_files: ... combine_and_sort_schedules(uploaded_files)
Call ==
    /\ pc = "upload"
    /\ uploaded_files # << >>
    /\ pc' = "loop"
    /\ UNCHANGED <<uploaded_files, file_index, list_of_dataframes, messages, combined_df, final_df,
                   match_count_summary, normaliser>>

\* else: st.info("Please upload one or more Excel files to get started.")
ShowInfo ==
    /\ pc = "upload"
    /\ uploaded_files = << >>
    /\ pc' = "info"
    /\ UNCHANGED <<uploaded_files, file_index, list_of_dataframes, messages, combined_df, final_df,
                   match_count_summary, normaliser>>

InLoop == pc = "loop" /\ file_index <= Len(uploaded_files)

CurrentFile == uploaded_files[file_index]

Message(kind) == [kind |-> kind, name |-> CurrentFile.name, position |-> file_index]

\* the loop goes on to the next file with no table appended
SkipFile(kind) ==
    /\ messages' = Append(messages, Message(kind))
    /\ file_index' = file_index + 1
    /\ UNCHANGED <<uploaded_files, pc, list_of_dataframes, combined_df, final_df, match_count_summary,
                   normaliser>>

\* pd.read_excel raises: except Exception, st.error, continue
ReadFails ==
    /\ InLoop
    /\ ~CurrentFile.readable
    /\ SkipFile("error")

\* 'date' not in column_mapping: st.warning, continue
SkipNoDate ==
    /\ InLoop
    /\ CurrentFile.readable
    /\ MissingDateColumn(CurrentFile)
    /\ SkipFile("warning")

\* a faulty variant of ProcessingError, to test the sensitivity of the properties: the table is appended before the lookup that raises
ProcessingErrorKeepsTable ==
    /\ InLoop
    /\ CurrentFile.readable
    /\ ~MissingDateColumn(CurrentFile)
    /\ RaisesKeyError(CurrentFile)
    /\ list_of_dataframes' = Append(list_of_dataframes, BuildFrame(CurrentFile))
    /\ messages' = Append(messages, Message("error"))
    /\ file_index' = file_index + 1
    /\ UNCHANGED <<uploaded_files, pc, combined_df, final_df, match_count_summary, normaliser>>

\* df['date'] or df['time'] raises KeyError: except Exception, st.error, continue
ProcessingError ==
    /\ InLoop
    /\ CurrentFile.readable
    /\ ~MissingDateColumn(CurrentFile)
    /\ RaisesKeyError(CurrentFile)
    /\ SkipFile("error")

\* the whole of the try block: list_of_dataframes.append(df)
AppendFile ==
    /\ InLoop
    /\ CurrentFile.readable
    /\ ~MissingDateColumn(CurrentFile)
    /\ ~RaisesKeyError(CurrentFile)
    /\ list_of_dataframes' = Append(list_of_dataframes, BuildFrame(CurrentFile))
    /\ file_index' = file_index + 1
    /\ UNCHANGED <<uploaded_files, pc, messages, combined_df, final_df, match_count_summary, normaliser>>

LoopDone == pc = "loop" /\ file_index > Len(uploaded_files)

\* if not list_of_dataframes: return None
ReturnNone ==
    /\ LoopDone
    /\ list_of_dataframes = << >>
    /\ final_df' = None
    /\ pc' = "returned"
    /\ UNCHANGED <<uploaded_files, file_index, list_of_dataframes, messages, combined_df,
                   match_count_summary, normaliser>>

\* pd.concat(...) and combined_df.sort_values(...)
ConcatSort ==
    /\ LoopDone
    /\ list_of_dataframes # << >>
    /\ combined_df' = [Concat(list_of_dataframes) EXCEPT !.rows = SortValues(@)]
    /\ pc' = "format"
    /\ UNCHANGED <<uploaded_files, file_index, list_of_dataframes, messages, final_df, match_count_summary,
                   normaliser>>

\* combined_df['Final Date'] = combined_df.apply(format_final_date, axis=1)
FormatDates ==
    /\ pc = "format"
    /\ combined_df' = [combined_df EXCEPT
                          !.rows = [k \in 1..Len(@) |-> [index |-> @[k].index, row |-> @[k].row,
                                                         FinalDate |-> format_final_date(@[k].row)]]]
    /\ pc' = "project"
    /\ UNCHANGED <<uploaded_files, file_index, list_of_dataframes, messages, final_df, match_count_summary,
                   normaliser>>

\* final_df = pd.DataFrame({...}); return final_df
BuildFinal ==
    /\ pc = "project"
    /\ ~RaisesAttributeError(combined_df.columns)
    /\ final_df' = [rows |-> [k \in 1..Len(combined_df.rows) |->
                                  FinalRow(combined_df.rows[k], combined_df.rows[k].FinalDate)]]
    /\ pc' = "returned"
    /\ UNCHANGED <<uploaded_files, file_index, list_of_dataframes, messages, combined_df,
                   match_count_summary, normaliser>>

\* combined_df.get(name, '') gave the str: ''.fillna raises AttributeError, which nothing catches
BuildFinalRaises ==
    /\ pc = "project"
    /\ RaisesAttributeError(combined_df.columns)
    /\ pc' = "raised"
    /\ UNCHANGED <<uploaded_files, file_index, list_of_dataframes, messages, combined_df, final_df,
                   match_count_summary, normaliser>>

\* combined_schedule is not None and not combined_schedule.empty
HasSchedule == final_df # None /\ final_df.rows # << >>

\* match_count_summary = create_match_count_summary(combined_schedule), and the page shows both
ShowSchedule ==
    /\ pc = "returned"
    /\ HasSchedule
    /\ match_count_summary' = create_match_count_summary(final_df.rows)
    /\ pc' = "shown"
    /\ UNCHANGED <<uploaded_files, file_index, list_of_dataframes, messages, combined_df, final_df,
                   normaliser>>

\* else: st.error("No valid schedule data could be extracted. ...")
ShowNoData ==
    /\ pc = "returned"
    /\ ~HasSchedule
    /\ pc' = "nodata"
    /\ UNCHANGED <<uploaded_files, file_index, list_of_dataframes, messages, combined_df, final_df,
                   match_count_summary, normaliser>>

Next ==
    \/ Call
    \/ ShowInfo
    \/ ReadFails
    \/ SkipNoDate
    \/ ProcessingError
    \/ AppendFile
    \/ ReturnNone
    \/ ConcatSort
    \/ FormatDates
    \/ BuildFinal
    \/ BuildFinalRaises
    \/ ShowSchedule
    \/ ShowNoData

Spec == Init /\ [][Next]_vars

\* --------------------------------------------- the normalisers, alone

\* Date cells: three fields joined by "/" or "-", with or without a time
\* of day after them, ranges, and the sentinels. A text with slashes only
\* keeps to the day/month/year shapes ParseDayFirst models.
DateFirstFields == {<<"5">>, <<"0", "5">>, <<"1", "3">>, <<"3", "2">>, <<"2", "0", "2", "5">>}
DateSecondFields == {<<"9">>, <<"0", "9">>, <<"1", "3">>, <<"2">>}
DateThirdFields == {<<"2", "0", "2", "5">>, <<"2", "5">>, <<"0", "5">>, <<"2", "3", "0", "0">>, <<"3", "0">>}
DateSeparators == {<<"/">>, <<"-">>}
DateTails == {<< >>, <<" ", "1", "0", ":", "0", "0", ":", "0", "0">>}

JoinedDates ==
    {q[1] \o q[2] \o q[3] \o q[4] \o q[5] \o q[6] :
        q \in {p \in DateFirstFields \X DateSeparators \X DateSecondFields \X DateSeparators
                     \X DateThirdFields \X DateTails :
                  (p[2] = <<"/">> /\ p[4] = <<"/">>) => (Len(p[1]) <= 2 /\ p[6] = << >>)}}

RangeDates ==
    {start \o <<"-">> \o end \o <<"/">> \o year :
        start \in {<<"7", "/", "1", "2">>, <<"1", "3", "/", "0", "9">>, <<"2", "/", "3", "0">>, <<"7", "/", " ", "5">>, <<"1", "2", "/", "0", "7", "/", "2", "0", "2", "5", " ">>},
        end \in {<<"7", "/", "1", "4">>, <<" ", "1", "4", "/", "0", "7">>},
        year \in {<<"2", "0", "2", "5">>, <<"2", "5">>, <<"1", "5", "0", "0">>}}

DateSentinels == {NaN, <<"T", "B", "A">>, <<" ", "t", "b", "a", " ">>, <<"N", "A", "N">>, <<"n", "a", "n">>, <<"T", "b", "a">>}

DateCells ==
    JoinedDates \cup RangeDates \cup DateSentinels
    \cup {<< >>, <<" ", " ">>, <<"h", "e", "l", "l", "o">>, <<"T", "B", "D">>, <<" ", "0", "5", "/", "0", "9", "/", "2", "0", "2", "5", " ">>, <<"2", "9", "/", "0", "2", "/", "2", "0", "2", "4">>, <<"2", "9", "/", "0", "2", "/", "2", "0", "2", "5">>, <<"2", "0", "2", "4", "-", "0", "2", "-", "2", "9">>}

\* Time cells: an hour, then ":" minute, ":" second, spaces and am/pm, each
\* there or not, and the sentinels.
TimeHours == {<<"0">>, <<"9">>, <<"0", "9">>, <<"1", "2">>, <<"1", "3">>, <<"1", "7">>, <<"2", "4">>}
TimeMinutes == {<< >>, <<":", "0", "0">>, <<":", "5">>, <<":", "5", "9">>, <<":", "6", "0">>}
TimeSeconds == {<< >>, <<":", "0", "0">>, <<":", "4", "5">>}
TimeSpaces == {<< >>, <<" ">>, <<" ", " ">>}
TimeAmPm == {<< >>, <<"A", "M">>, <<"p", "m">>, <<"P", "M">>, <<"x", "m">>}

JoinedTimes ==
    {q[1] \o q[2] \o q[3] \o q[4] \o q[5] :
        q \in {p \in TimeHours \X TimeMinutes \X TimeSeconds \X TimeSpaces \X TimeAmPm :
                  /\ (p[2] = << >> => p[3] = << >>)
                  /\ (p[5] = << >> => p[4] = << >>)}}

TimeSentinels == {NaN, <<"T", "B", "A">>, <<" ", "t", "b", "a">>, <<"N", "A", "N">>, <<"n", "a", "n">>, << >>, <<" ">>}

TimeCells == JoinedTimes \cup TimeSentinels \cup {<<"n", "o", "o", "n", "i", "s", "h">>, <<" ", "9", ":", "0", "0", " ", "A", "M", " ">>, <<"T", "B", "D">>, <<"A", "M">>, <<":", "3", "0", " ", "P", "M">>}

\* parse_for_sorting is about to be called on a date cell
InitDate ==
    /\ uploaded_files = << >>
    /\ PipelineIdle
    /\ arg \in DateCells
    /\ ret = None
    /\ branch = "date"

DateReturn(label) ==
    /\ ret' = parse_for_sorting(arg)
    /\ branch' = label
    /\ UNCHANGED <<arg, pipeline>>

\* return pd.NaT, the sentinel test
DateSentinel ==
    /\ branch = "date"
    /\ IsDateSentinel(arg)
    /\ DateReturn("sentinel")

\* the return of the range branch
DateRange ==
    /\ branch = "date"
    /\ ~IsDateSentinel(arg)
    /\ IsRangeForm(Strip(Str(arg)))
    /\ DateReturn("range")

\* the return of the YYYY-MM-DD branch
DateIso ==
    /\ branch = "date"
    /\ ~IsDateSentinel(arg)
    /\ ~IsRangeForm(Strip(Str(arg)))
    /\ IsIsoForm(Strip(Str(arg)))
    /\ DateReturn("iso")

\* the return of the last branch
DateDefault ==
    /\ branch = "date"
    /\ ~IsDateSentinel(arg)
    /\ ~IsRangeForm(Strip(Str(arg)))
    /\ ~IsIsoForm(Strip(Str(arg)))
    /\ DateReturn("default")

NextDate == DateSentinel \/ DateRange \/ DateIso \/ DateDefault

SpecDate == InitDate /\ [][NextDate]_vars

\* parse_time_string, then get_sort_time, are about to be called on a time cell
InitTime ==
    /\ uploaded_files = << >>
    /\ PipelineIdle
    /\ arg \in TimeCells
    /\ ret = None
    /\ branch = "time"

\* df['parsed_time'] and df['sort_time'] of the cell
TimeReturn(label) ==
    /\ ret' = [parsed_time |-> parse_time_string(arg), sort_time |-> get_sort_time(parse_time_string(arg))]
    /\ branch' = label
    /\ UNCHANGED <<arg, pipeline>>

\* return 'TBA'
TimeSentinel ==
    /\ branch = "time"
    /\ IsTimeSentinel(arg)
    /\ TimeReturn("sentinel")

\* the return of the "HH:MM:SS" step
TimeExcel ==
    /\ branch = "time"
    /\ ~IsTimeSentinel(arg)
    /\ ExcelTimeStep(Strip(Str(arg))) # ValueError
    /\ TimeReturn("excel")

\* the return inside the loop over time_formats
TimeFormat ==
    /\ branch = "time"
    /\ ~IsTimeSentinel(arg)
    /\ ExcelTimeStep(Strip(Str(arg))) = ValueError
    /\ FirstFormat(Strip(Str(arg)), 1) # 0
    /\ TimeReturn("format")

\* return time_str, no format matched
TimeUnchanged ==
    /\ branch = "time"
    /\ ~IsTimeSentinel(arg)
    /\ ExcelTimeStep(Strip(Str(arg))) = ValueError
    /\ FirstFormat(Strip(Str(arg)), 1) = 0
    /\ TimeReturn("unchanged")

NextTime == TimeSentinel \/ TimeExcel \/ TimeFormat \/ TimeUnchanged

SpecTime == InitTime /\ [][NextTime]_vars

\* ------------------------------------------------------------- claims

IsTimestamp(t) == t.ymd > 0 /\ t.hms >= 0

\* the fields of the text Strip(Str(arg)) that each branch of parse_for_sorting reads
ArgText == Strip(Str(arg))
RangeStartFields == Split(SplitFirst(ArgText, "-"), "/")
RangeYearField == SplitLast(ArgText, "/")
IsoFields == Split(SplitFirst(ArgText, " "), "-")

DateReturned == branch \in {"sentinel", "range", "iso", "default"}

\* C10: parse_for_sorting takes exactly one branch, chosen by the shape of
\* the trimmed text: the range branch when it has a hyphen and a slash,
\* else the ISO branch when it has exactly two hyphens, else the day-first
\* branch. The range branch reads month/day before the first hyphen and the
\* year after the last slash; the ISO branch reads year-month-day before
\* the first space. A failure in the branch taken gives NaT, whatever a
\* later branch would have made of the text, and the result is always a
\* timestamp or NaT, never an exception.
C10_OneBranchNoFallThrough ==
    DateReturned =>
        /\ ret = NaT \/ IsTimestamp(ret)
        /\ branch = "sentinel" <=> IsDateSentinel(arg)
        /\ branch = "sentinel" => ret = NaT
        /\ ~IsDateSentinel(arg) =>
            /\ branch = "range" <=> (Contains(ArgText, "-") /\ Contains(ArgText, "/"))
            /\ branch = "iso" <=> (~Contains(ArgText, "/") /\ Count(ArgText, "-") = 2)
            /\ branch = "range" =>
                IF /\ Len(RangeStartFields) = 2
                   /\ FieldMonth(RangeStartFields[1]) /\ FieldDay(RangeStartFields[2])
                   /\ FieldYear4(RangeYearField)
                   /\ MakeDate(ToNat(RangeYearField), ToNat(RangeStartFields[1]),
                               FieldDayVal(RangeStartFields[2])) # ValueError
                THEN ret = MakeDate(ToNat(RangeYearField), ToNat(RangeStartFields[1]),
                                    FieldDayVal(RangeStartFields[2]))
                ELSE ret = NaT
            /\ branch = "iso" =>
                IF /\ Len(IsoFields) = 3
                   /\ FieldYear4(IsoFields[1]) /\ FieldMonth(IsoFields[2])
                   /\ AllDigits(IsoFields[3]) /\ FieldDay(IsoFields[3])
                   /\ MakeDate(ToNat(IsoFields[1]), ToNat(IsoFields[2]), ToNat(IsoFields[3])) # ValueError
                THEN ret = MakeDate(ToNat(IsoFields[1]), ToNat(IsoFields[2]), ToNat(IsoFields[3]))
                ELSE ret = NaT
            /\ branch = "default" => ret = OrNaT(ParseDayFirst(ArgText))

\* C10 witness: the ISO branch was taken on "05-09-2025", failed and returned
\* NaT, though the day-first parse reads the text as a date
C10_Witness ==
    /\ branch = "iso"
    /\ arg = <<"0", "5", "-", "0", "9", "-", "2", "0", "2", "5">>
    /\ ret = NaT
    /\ IsTimestamp(ParseDayFirst(ArgText))

TimeReturned == branch \in {"sentinel", "excel", "format", "unchanged"}

\* a text of the shape "hh:mm AM" or "hh:mm PM"
IsDisplayTime(s) ==
    /\ Len(s) = 8
    /\ \A i \in {1, 2, 4, 5} : s[i] \in DigitChars
    /\ s[3] = ":" /\ s[6] = " " /\ s[7] \in {"A", "P"} /\ s[8] = "M"
    /\ ToNat(SubSeq(s, 1, 2)) \in 1..12
    /\ ToNat(SubSeq(s, 4, 5)) \in 0..59

\* the minute of the day a display time names: 12:00 AM is 0, 11:59 PM is 1439
MinuteOfDay(s) ==
    ((ToNat(SubSeq(s, 1, 2)) % 12) + (IF s[7] = "P" THEN 12 ELSE 0)) * 60 + ToNat(SubSeq(s, 4, 5))

\* C8: the sort key of a time cell lies in one of three bands. A text that
\* matched no format is returned unchanged and gets Timestamp.min, before
\* every parsed time; a text that parse_time_string reformatted displays
\* as "hh:mm AM/PM" and gets that time of day on 1900-01-01, strictly
\* between the two sentinels (so never the minimal one), 12:00 AM the
\* earliest and 11:59 PM the latest; a missing, empty, "TBA" or "NAN" cell
\* displays "TBA" and gets Timestamp.max, after every parsed time.
\* "17:00:00" displays "05:00 PM" at 17:00.
C8_ThreeTimeBands ==
    TimeReturned =>
        /\ branch = "sentinel" <=> (isna(arg) \/ Upper(ArgText) \in {TBA, NAN, << >>})
        /\ branch = "sentinel" => ret.parsed_time = TBA /\ ret.sort_time = TimestampMax
        /\ branch = "unchanged" =>
            /\ ret.parsed_time = ArgText
            /\ ret.parsed_time # << >>
            /\ ret.sort_time = TimestampMin
        /\ branch \in {"excel", "format"} =>
            /\ IsDisplayTime(ret.parsed_time)
            /\ ret.sort_time.ymd = 19000101
            /\ ret.sort_time.hms = (MinuteOfDay(ret.parsed_time) \div 60) * 10000
                                   + (MinuteOfDay(ret.parsed_time) % 60) * 100
            /\ TsLess(TimestampMin, ret.sort_time)
            /\ TsLess(ret.sort_time, TimestampMax)
        /\ ArgText = <<"1", "7", ":", "0", "0", ":", "0", "0">> => ret.parsed_time = <<"0", "5", ":", "0", "0", " ", "P", "M">> /\ ret.sort_time.hms = 170000

\* C8 witness: "17:00:00" was reformatted to "05:00 PM" and ordered at 17:00
C8_Witness ==
    /\ branch = "excel"
    /\ arg = <<"1", "7", ":", "0", "0", ":", "0", "0">>
    /\ ret.parsed_time = <<"0", "5", ":", "0", "0", " ", "P", "M">>
    /\ ret.sort_time = [ymd |-> 19000101, hms |-> 170000]

\* combine_and_sort_schedules returned a table
TableReturned == pc \in {"returned", "shown", "nodata"} /\ final_df # None

\* the concatenated table exists (sorted; past FormatDates with Final Date)
Combined == pc \in {"format", "project", "returned", "shown", "nodata", "raised"} /\ list_of_dataframes # << >>

\* the sort keys of the k-th row of the sorted table
SortDateAt(k) == combined_df.rows[k].row.sort_date
SortTimeAt(k) == combined_df.rows[k].row.sort_time

\* the date cell of the k-th row did not parse
UnparseableAt(k) == parse_for_sorting(combined_df.rows[k].row.date) = NaT

\* C1: the returned table is in (sortDate, sortTime) order: its rows are
\* the sorted rows in their order, of two adjacent rows the earlier has the
\* smaller or equal sortDate and, on equal sortDates, the smaller or equal
\* sortTime; and no row whose date did not parse ("TBA", "NAN", empty, a
\* failed parse) stands before a row whose date parsed.
C1_ReturnedTableSorted ==
    TableReturned =>
        /\ Len(final_df.rows) = Len(combined_df.rows)
        /\ \A k \in 1..Len(final_df.rows) : final_df.rows[k].index = combined_df.rows[k].index
        /\ \A k \in 1..(Len(final_df.rows) - 1) :
            /\ SortDateAt(k).ymd <= SortDateAt(k + 1).ymd
            /\ SortDateAt(k) = SortDateAt(k + 1) =>
                \/ SortTimeAt(k).ymd < SortTimeAt(k + 1).ymd
                \/ SortTimeAt(k).ymd = SortTimeAt(k + 1).ymd /\ SortTimeAt(k).hms <= SortTimeAt(k + 1).hms
        /\ LET unparseable == [k \in 1..Len(final_df.rows) |-> UnparseableAt(k)]
           IN \A i, j \in 1..Len(final_df.rows) : (unparseable[i] /\ ~unparseable[j]) => j < i

\* C1 witness: a returned table whose rows the sort moved, with rows of
\* different dates, rows of one date and different times, and a row whose
\* date did not parse after rows whose dates parsed
C1_Witness ==
    /\ TableReturned
    /\ \E k \in 1..(Len(final_df.rows) - 1) : final_df.rows[k].index > final_df.rows[k + 1].index
    /\ \E k \in 1..(Len(final_df.rows) - 1) : SortDateAt(k).ymd < SortDateAt(k + 1).ymd /\ ~UnparseableAt(k + 1)
    /\ \E k \in 1..(Len(final_df.rows) - 1) :
        SortDateAt(k) = SortDateAt(k + 1) /\ TsLess(SortTimeAt(k), SortTimeAt(k + 1))
    /\ \E i, j \in 1..Len(final_df.rows) : ~UnparseableAt(i) /\ UnparseableAt(j)

\* C2: the sort keeps ties in order. A row's label is its place in the
\* concatenation, file after file in upload order and row after row within
\* a file; of two rows of the sorted table with equal sortDate and equal
\* sortTime, the one with the smaller label stands first.
C2_TiesKeepConcatenationOrder ==
    Combined =>
        /\ \A k \in 1..Len(combined_df.rows) :
            /\ combined_df.rows[k].index \in 0..(Len(combined_df.rows) - 1)
            /\ ConcatRows(list_of_dataframes)[combined_df.rows[k].index + 1] = combined_df.rows[k].row
        /\ \A i, j \in 1..Len(combined_df.rows) :
            (i < j /\ SortDateAt(i) = SortDateAt(j) /\ SortTimeAt(i) = SortTimeAt(j))
                => combined_df.rows[i].index < combined_df.rows[j].index

\* C2 witness: two rows of different files tie on both keys and stand in
\* upload order, in a table of which the sort moved some row
C2_Witness ==
    /\ Combined
    /\ \E i, j \in 1..Len(combined_df.rows) :
        /\ i < j
        /\ SortDateAt(i) = SortDateAt(j) /\ SortTimeAt(i) = SortTimeAt(j)
        /\ combined_df.rows[i].row.MACUTeam # combined_df.rows[j].row.MACUTeam
        /\ combined_df.rows[i].row.sort_date # TimestampMax
    /\ \E k \in 1..(Len(combined_df.rows) - 1) : combined_df.rows[k].index > combined_df.rows[k + 1].index

\* the positions of the files the loop is done with
Processed == 1..(file_index - 1)

\* the positions of the files the loop skipped with a warning or an error
SkippedPositions == {messages[k].position : k \in 1..Len(messages)}

\* the ascending sequence of the numbers of a set
RECURSIVE Ascending(_)
Ascending(S) == IF S = {} THEN << >> ELSE <<Min(S)>> \o Ascending(S \ {Min(S)})

\* the files the loop is done with and did not skip, in upload order
SurvivingFiles ==
    LET kept == Ascending(Processed \ SkippedPositions)
    IN [k \in 1..Len(kept) |-> uploaded_files[kept[k]]]

\* a file with a column that resolves as the date
ResolvesDate(file) == \E j \in 1..Len(file.columns) : IsSubstring(ColDate, Strip(Lower(file.columns[j])))

\* the renamed table of a file keeps a date and a time column: both names
\* resolved, and no later name of column_mapping resolved to the same column
ReadsDateAndTime(file) ==
    LET found == find_required_columns(file.columns)
    IN /\ ColDate \in DOMAIN found
       /\ ColTime \in DOMAIN found
       /\ \A name \in DOMAIN found \ {ColDate} : found[name] # found[ColDate]
       /\ \A name \in DOMAIN found \ {ColDate, ColTime} : found[name] # found[ColTime]

FinalDates == [k \in 1..Len(final_df.rows) |-> final_df.rows[k].Date]

\* the first row of the returned table with the Date
FirstOccurrence(date) == Min({k \in 1..Len(FinalDates) : FinalDates[k] = date})

\* C6: the summary has exactly one row per distinct Date text of the final
\* table, its Match Count is the number of final rows with that very text,
\* its rows stand in the order in which the Dates first occur in the final
\* table, and the counts add up to the number of final rows.
C6_SummaryCountsByFirstOccurrence ==
    pc = "shown" =>
        /\ {match_count_summary[k].Date : k \in 1..Len(match_count_summary)}
               = {FinalDates[k] : k \in 1..Len(FinalDates)}
        /\ \A a, b \in 1..Len(match_count_summary) :
            a < b => FirstOccurrence(match_count_summary[a].Date) < FirstOccurrence(match_count_summary[b].Date)
        /\ \A a \in 1..Len(match_count_summary) :
            match_count_summary[a].MatchCount
                = Cardinality({k \in 1..Len(FinalDates) : FinalDates[k] = match_count_summary[a].Date})
        /\ Len(FinalDates) = Cardinality(UNION {{<<a, n>> : n \in 1..match_count_summary[a].MatchCount} :
                                                   a \in 1..Len(match_count_summary)})

\* C6 witness: a summary of several Dates, one of them counted more than
\* once, whose order of first occurrence is not the order of the texts
C6_Witness ==
    /\ pc = "shown"
    /\ Len(match_count_summary) >= 2
    /\ \E a \in 1..Len(match_count_summary) : match_count_summary[a].MatchCount >= 2
    /\ \E a \in 1..(Len(match_count_summary) - 1) :
        TextLess(match_count_summary[a + 1].Date, match_count_summary[a].Date)

\* the text of a raw cell: an empty cell has none
RawText(cell) == IF isna(cell) THEN << >> ELSE cell

\* C7: the display Date of a row is the raw date text itself when that has
\* a hyphen and a slash; else the parsed date as zero-padded day/month/year
\* when the date parsed; else the raw date text itself.
C7_ThreeWayDisplayDate ==
    (Combined /\ pc # "format") =>
        \A k \in 1..Len(combined_df.rows) :
            LET raw == RawText(combined_df.rows[k].row.date)
                parsed == parse_for_sorting(combined_df.rows[k].row.date)
            IN combined_df.rows[k].FinalDate =
                   IF Contains(raw, "-") /\ Contains(raw, "/") THEN raw
                   ELSE IF parsed # NaT
                   THEN TwoDigits(parsed.ymd % 100) \o <<"/">> \o TwoDigits((parsed.ymd \div 100) % 100)
                        \o <<"/">> \o FourDigits(parsed.ymd \div 10000)
                   ELSE raw

\* the files the loop is done with that read_excel can read and whose headers resolve a date column
DateResolvedPositions == {p \in Processed : uploaded_files[p].readable /\ ResolvesDate(uploaded_files[p])}

\* C3: a readable file whose headers resolve a date column is never
\* skipped, whichever of the other five names resolve: the loop reports
\* nothing for it and keeps its table, one row per non-empty row of the
\* file, each tagged with the file's base name.
C3_DateColumnIsEnough ==
    pc \notin {"upload", "info"} =>
        /\ DateResolvedPositions \cap SkippedPositions = {}
        /\ \A k \in 1..Len(SurvivingFiles) :
            /\ Len(list_of_dataframes[k].rows) = Len(DropEmptyRows(SurvivingFiles[k].rows))
            /\ \A r \in 1..Len(list_of_dataframes[k].rows) :
                list_of_dataframes[k].rows[r].MACUTeam = BaseName(SurvivingFiles[k].name)

\* a row of the returned table has every output column defined, with the default where the source has no value
HasDefaults(final, source) ==
    /\ final.Time = (IF IsTimeSentinel(source.time) THEN TBA ELSE final.Time)
    /\ final.Opponent = RawText(source.opponent)
    /\ final.Meet = RawText(source.meet)
    /\ final.Location = (IF isna(source.location) THEN TBA ELSE source.location)
    /\ final.Distance = (IF isna(source.distance) THEN <<"0">> ELSE source.distance)

\* C5: every row of the final table has its seven columns, with "TBA" for
\* a missing Location or unknown Time, "0" for a missing Distance and the
\* empty text for a missing Opponent or Meet, and building the final table
\* never fails for an optional column that no file has.
C5_DefaultsForMissingColumns ==
    /\ pc # "raised"
    /\ TableReturned =>
        \A k \in 1..Len(final_df.rows) : HasDefaults(final_df.rows[k], combined_df.rows[k].row)

\* combine_and_sort_schedules is over: it returned or it raised
CallOver == pc \in {"returned", "shown", "nodata", "raised"}

\* C9: combine_and_sort_schedules returns None exactly when no file
\* survived, and returns a table, without raising, whenever one did.
C9_NoneExactlyWhenNoFileSurvives ==
    CallOver =>
        IF list_of_dataframes = << >> THEN pc # "raised" /\ final_df = None
        ELSE pc # "raised" /\ final_df # None

====
